---- MODULE Spec2Model ----
(***************************************************************************)
(* Model of edgar/httprequests.py: the sliding-window Throttler, the       *)
(* identity resolution of with_identity, the stamina retry decorator and   *)
(* the decorated request functions (get/post/stream _with_retry and the    *)
(* two async ones).                                                        *)
(*                                                                         *)
(* Time.  time.monotonic() is an integer clock counting ticks of           *)
(* 1/TicksPerSecond seconds.  The code never looks at a reading of the     *)
(* clock by itself, only at the difference of two readings, so readings    *)
(* are kept relative to the current one: the current reading is always     *)
(* written `now`, and a tick of the clock moves every stored reading one   *)
(* tick into the past.  A reading in request_timestamps stops moving one   *)
(* tick below now - time_window: it is expired for every later call, as    *)
(* is anything older.  The history of admissions keeps the admissions      *)
(* with a reading of at least now - time_window, and the reading of the    *)
(* first admission stops moving one tick below now - 2 * time_window.      *)
(* The clock is read in one place, on entry to get_ticket's critical       *)
(* section, and waited for in one place, time.sleep; what a tick does at   *)
(* any other moment it also does just before the next of these, so Tick    *)
(* is taken only when a thread is at one of them and no lock is held.      *)
(*                                                                         *)
(* Threads.  All threads run the same code, so the set of threads is kept  *)
(* as a bag of thread-local states.  The tasks of an asyncio event loop    *)
(* are kept in the same bag: the loop is one thread, so at most one of its *)
(* tasks is not suspended.                                                 *)
(***************************************************************************)
EXTENDS Integers, Sequences, FiniteSets, Bags, TLC

VARIABLES
    lock,               \* Throttler.lock, per throttler: TRUE when held
    request_rate,       \* Throttler.request_rate, per throttler
    request_timestamps, \* Throttler.request_timestamps, per throttler
    total_calls,        \* Throttler.total_calls, per throttler
    peak_call_rate,     \* Throttler.peak_call_rate * time_window, per throttler
    admitted,           \* history: timestamps of the recent get_ticket() = True
    first_admission,    \* history: timestamp of the first get_ticket() = True
                        \*   of the free-standing Throttler (0: none yet)
    environ,            \* os.environ.get("EDGAR_IDENTITY")
    threads             \* bag of thread-local states

vars == <<lock, request_rate, request_timestamps, total_calls,
          peak_call_rate, admitted, first_admission, environ, threads>>

-----------------------------------------------------------------------------
(* Program constants *)

attempts == 6
max_requests_per_second == 8
sleep_interval_ms == 100

(* Bounds of the model *)

TicksPerSecond == 1     \* resolution of the clock
MaxWindow == 2          \* largest time_window (seconds) of the free-standing Throttler
MaxRequests == 2        \* largest max_requests of the free-standing Throttler
NumCallers == 2         \* threads calling the free-standing Throttler
MaxCalls == 2           \* calls made by each such thread
NumThreads == 1         \* threads calling the decorated request functions
MaxErrors == 7          \* httpx.RequestErrors the transport raises in one top-level call
MaxRedirects == 1       \* 301/302 answers of the transport in one top-level call

\* the current reading of time.monotonic(): see the note on time above
now == 2 * MaxWindow * TicksPerSecond + 2

None == "None"

EntryPoints == {"get_with_retry", "post_with_retry", "stream_with_retry"}

AsyncEntryPoints == {"get_with_retry_async", "post_with_retry_async"}

\* One Throttler per decorated function (throttle_requests is applied once
\* per function), and one free-standing Throttler(request_rate).
ThrottlerIds == EntryPoints \cup AsyncEntryPoints \cup {"throttler"}

-----------------------------------------------------------------------------
(* What a call returns or raises *)

NoResult == [kind |-> "none", status |-> 0, exc |-> None]
Response(status) == [kind |-> "response", status |-> status, exc |-> None]
Raised(exc) == [kind |-> "exception", status |-> 0, exc |-> exc]
Generator == [kind |-> "generator", status |-> 0, exc |-> None]
Coroutine == [kind |-> "coroutine", status |-> 0, exc |-> None]

-----------------------------------------------------------------------------
(* RequestRate and Throttler *)

\* variant: a RequestRate that accepts any numbers
RequestRateUnchecked(max_requests, time_window) ==
    [max_requests |-> max_requests, time_window |-> time_window]
\* RequestRate(max_requests, time_window): the new object, or the exception
\* its __init__ raises
RequestRate(max_requests, time_window) ==
    IF max_requests <= 0 THEN Raised("ValueError")
    ELSE IF time_window <= 0 THEN Raised("ValueError")
    ELSE [max_requests |-> max_requests, time_window |-> time_window]

\* throttle_requests(request_rate, requests_per_second): the request_rate it
\* hands to Throttler(request_rate), or the exception it raises.  An optional
\* argument is <<>> when it is None and <<value>> otherwise.
ThrottleRequests(request_rate_arg, requests_per_second) ==
    IF requests_per_second # <<>> THEN RequestRate(requests_per_second[1], 1)
    ELSE IF request_rate_arg = <<>> THEN Raised("ValueError")
    ELSE request_rate_arg[1]

\* time_window, which the code holds in seconds, in ticks of the clock
WindowTicks(th) == request_rate[th].time_window * TicksPerSecond

\* time.sleep(sleep_interval) lasts at least sleep_interval: it spans at
\* least this many ticks of the clock
SleepTicks == (sleep_interval_ms * TicksPerSecond) \div 1000

\* variant: a purge that removes nothing
ExpiredNever(ts, current_time, window) == FALSE
\* variant: a purge that removes everything
ExpiredAlways(ts, current_time, window) == TRUE
\* request_timestamps[0] <= current_time - time_window
Expired(ts, current_time, window) == ts <= current_time - window

\* while request_timestamps and <expired>: request_timestamps.popleft()
RECURSIVE PopExpired(_, _, _)
PopExpired(q, current_time, window) ==
    IF q # <<>> /\ Expired(Head(q), current_time, window)
    THEN PopExpired(Tail(q), current_time, window)
    ELSE q

\* variant: the comparison off by one
HasRoomOff(q, max_requests) == Len(q) <= max_requests
\* len(request_timestamps) < max_requests
HasRoom(q, max_requests) == Len(q) < max_requests

\* variant: get_ticket without mutual exclusion
LockFreeOff(th) == TRUE
\* with self.lock: the lock can be taken when nobody holds it
LockFree(th) == ~lock[th]

-----------------------------------------------------------------------------
(* Thread-local state *)

IdleThread ==
    [ op           |-> None,    \* the function the thread called
      pc           |-> "idle",
      th           |-> None,    \* the Throttler it is using
      current_time |-> 0,       \* get_ticket's local current_time
      sleep        |-> 0,       \* ticks left of time.sleep
      ret          |-> None,    \* result of its last get_ticket()
      calls        |-> 0,       \* calls it has completed
      live         |-> 0,       \* history: admissions live when it entered get_ticket
      gapN         |-> 0,       \* history: see GetTicketEnter
      sinceFirst   |-> 0,
      \* a call of a decorated request function
      identity          |-> None,  \* argument identity of the top-level call
      identity_callable |-> None,  \* argument identity_callable
      stack             |-> <<>>,  \* one frame per invocation in progress
      user_agent        |-> None,  \* kwargs["headers"]["User-Agent"]
      exc               |-> None,  \* the exception being raised
      result            |-> NoResult,
      iterating         |-> FALSE, \* the generator's body is running
      yielded           |-> <<>>,  \* what the generator has yielded
      \* history of the top-level call
      tickets           |-> 0,     \* tickets granted to it
      transport_calls   |-> 0,
      errors            |-> 0,     \* transport calls that raised httpx.RequestError
      redirects         |-> 0,     \* transport calls answered 301 or 302
      first             |-> 0,     \* status of the first and of the last transport
      last              |-> 0,     \*   call (0: none yet, or it raised RequestError)
      agents            |-> {},    \* User-Agent of its transport calls
      resolver_calls    |-> 0,     \* calls of identity_callable
      resolutions       |-> 0,     \* runs of with_identity's wrapper
      timed_out         |-> FALSE  \* a retry was given up on retry_timeout
    ]

Replace(s, s2) == (threads (-) SetToBag({s})) (+) SetToBag({s2})

ThreadStates == BagToSet(threads)

Min(a, b) == IF a < b THEN a ELSE b
Max(a, b) == IF a > b THEN a ELSE b

\* number of admissions of throttler th with timestamp in (t - window, t]
LiveAt(th, t) ==
    Cardinality({i \in 1..Len(admitted[th]) :
                    admitted[th][i] > t - WindowTicks(th) /\ admitted[th][i] <= t})

\* the readings t for which the history still holds every admission with a
\* timestamp in (t - window, t]
Readings(th) == (now - 1)..now

\* the gap between reading t and the n-th most recent admission of th,
\* capped at cap (cap when there are fewer than n admissions)
GapBack(th, n, t, cap) ==
    IF Len(admitted[th]) < n THEN cap
    ELSE Min(cap, t - admitted[th][Len(admitted[th]) + 1 - n])

-----------------------------------------------------------------------------
(* Throttler.get_ticket, in the steps other threads can interleave with *)

\* leaving `with self.lock`: q and log are the Throttler's readings as the
\* thread leaves them
Release(th, q, log) ==
    /\ lock' = [lock EXCEPT ![th] = FALSE]
    /\ request_timestamps' = [request_timestamps EXCEPT ![th] = q]
    /\ admitted' = [admitted EXCEPT ![th] = log]
    /\ first_admission' =
            IF th = "throttler" /\ first_admission = 0 /\ log # <<>>
            THEN log[1] ELSE first_admission

\* with self.lock: current_time = time.monotonic()
GetTicketEnter(s) ==
    /\ s.pc = "enter"
    /\ LockFree(s.th)
    /\ lock' = [lock EXCEPT ![s.th] = TRUE]
    /\ threads' = Replace(s, [s EXCEPT
            !.pc = "purge",
            !.current_time = now,
            !.live = LiveAt(s.th, now),
            !.gapN = GapBack(s.th, request_rate[s.th].max_requests, now, WindowTicks(s.th)),
            !.sinceFirst = IF s.th # "throttler" \/ first_admission = 0 THEN 0
                           ELSE Min(2 * WindowTicks(s.th), now - first_admission)])
    /\ UNCHANGED <<request_rate, request_timestamps, total_calls,
                   peak_call_rate,
                   admitted, first_admission, environ>>

\* what the caller of get_ticket() does with its result:
\*   get_ticket() called directly: the call is over;
\*   wait_for_ticket(): while not self.get_ticket(): time.sleep(self.sleep_interval)
\*   throttle_requests' wrapper: throttler.wait_for_ticket(), then
\*   result = func(*args, **kwargs); a generator function returns its
\*   generator at once, without running its body, and an async function
\*   its coroutine
AfterGetTicket(s, granted) ==
    LET r == [s EXCEPT !.ret = IF granted THEN "True" ELSE "False",
                       !.current_time = 0, !.live = 0, !.gapN = 0, !.sinceFirst = 0]
    IN  IF s.op = "get_ticket"
        THEN [r EXCEPT !.pc = "idle", !.calls = @ + 1]
        ELSE IF ~granted
        THEN [r EXCEPT !.pc = "sleep", !.sleep = SleepTicks]
        ELSE IF s.op = "wait_for_ticket"
        THEN [r EXCEPT !.pc = "idle", !.calls = @ + 1]
        ELSE IF s.op = "stream_with_retry"
        THEN [r EXCEPT !.pc = "metrics", !.tickets = @ + 1, !.result = Generator]
        ELSE IF s.op \in AsyncEntryPoints
        THEN [r EXCEPT !.pc = "metrics", !.tickets = @ + 1, !.result = Coroutine]
        ELSE [r EXCEPT !.pc = "transport", !.tickets = @ + 1]

\* the purge loop and the test of len(request_timestamps) < max_requests;
\* the else branch returns False and releases the lock
GetTicketPurge(s) ==
    LET q == PopExpired(request_timestamps[s.th], s.current_time, WindowTicks(s.th))
    IN  /\ s.pc = "purge"
        /\ IF HasRoom(q, request_rate[s.th].max_requests)
           THEN /\ threads' = Replace(s, [s EXCEPT !.pc = "append"])
                /\ request_timestamps' = [request_timestamps EXCEPT ![s.th] = q]
                /\ UNCHANGED <<lock, admitted, first_admission>>
           ELSE /\ threads' = Replace(s, AfterGetTicket(s, FALSE))
                /\ Release(s.th, q, admitted[s.th])
        /\ UNCHANGED <<request_rate, total_calls, peak_call_rate, environ>>

\* self.request_timestamps.append(current_time); return True (releases the lock)
GetTicketAppend(s) ==
    /\ s.pc = "append"
    /\ Release(s.th, Append(request_timestamps[s.th], s.current_time),
                     Append(admitted[s.th], s.current_time))
    /\ threads' = Replace(s, AfterGetTicket(s, TRUE))
    /\ UNCHANGED <<request_rate, total_calls, peak_call_rate, environ>>

\* time.sleep(self.sleep_interval) is over: back to the loop test
WakeUp(s) ==
    /\ s.pc = "sleep"
    /\ s.sleep = 0
    /\ threads' = Replace(s, [s EXCEPT !.pc = "enter"])
    /\ UNCHANGED <<lock, request_rate, request_timestamps, total_calls,
                   peak_call_rate,
                   admitted, first_admission, environ>>

-----------------------------------------------------------------------------
(* The clock *)

\* a stored reading one tick later, for readings that stop at `floor`
Back(ts, floor) == IF ts - 1 > floor THEN ts - 1 ELSE floor

BackAll(q, floor) == [i \in 1..Len(q) |-> Back(q[i], floor)]

\* an ascending history one tick later: admissions at `floor` are dropped
RECURSIVE BackRecent(_, _)
BackRecent(log, floor) ==
    IF log = <<>> THEN <<>>
    ELSE IF Head(log) - 1 <= floor THEN BackRecent(Tail(log), floor)
    ELSE BackAll(log, floor)

TimestampFloor(th) == now - WindowTicks(th) - 1

FirstFloor(th) == now - 2 * WindowTicks(th) - 1

TickThread(s) == [s EXCEPT !.sleep = IF @ > 0 THEN @ - 1 ELSE 0]

Tick ==
    /\ \E s \in ThreadStates : s.pc \in {"enter", "sleep"}
    /\ \A th \in ThrottlerIds : ~lock[th]
    /\ request_timestamps' = [th \in ThrottlerIds |->
            BackAll(request_timestamps[th], TimestampFloor(th))]
    /\ admitted' = [th \in ThrottlerIds |->
            BackRecent(admitted[th], TimestampFloor(th))]
    /\ first_admission' =
            IF first_admission = 0 THEN 0
            ELSE Back(first_admission, FirstFloor("throttler"))
    /\ threads' = BagOfAll(TickThread, threads)
    /\ UNCHANGED <<lock, request_rate, total_calls, peak_call_rate, environ>>

-----------------------------------------------------------------------------
(* Threads calling a free-standing Throttler *)

CallGetTicket(s) ==
    /\ s.pc = "idle"
    /\ s.op \in {None, "get_ticket", "wait_for_ticket"}
    /\ s.calls < MaxCalls
    /\ "throttler" \in DOMAIN request_rate
    /\ threads' = Replace(s, [s EXCEPT !.op = "get_ticket", !.pc = "enter",
                                       !.th = "throttler", !.ret = None])
    /\ UNCHANGED <<lock, request_rate, request_timestamps, total_calls,
                   peak_call_rate,
                   admitted, first_admission, environ>>

CallWaitForTicket(s) ==
    /\ s.pc = "idle"
    /\ s.op \in {None, "get_ticket", "wait_for_ticket"}
    /\ s.calls < MaxCalls
    /\ "throttler" \in DOMAIN request_rate
    /\ threads' = Replace(s, [s EXCEPT !.op = "wait_for_ticket", !.pc = "enter",
                                       !.th = "throttler", !.ret = None])
    /\ UNCHANGED <<lock, request_rate, request_timestamps, total_calls,
                   peak_call_rate,
                   admitted, first_admission, environ>>

NewThrottlers(rate) ==
    /\ lock = [th \in ThrottlerIds |-> FALSE]
    /\ request_rate = [th \in ThrottlerIds |->
            IF th = "throttler" THEN rate
            ELSE ThrottleRequests(<<>>, <<max_requests_per_second>>)]
    /\ request_timestamps = [th \in ThrottlerIds |-> <<>>]
    /\ total_calls = [th \in ThrottlerIds |-> 0]
    /\ peak_call_rate = [th \in ThrottlerIds |-> 0]
    /\ admitted = [th \in ThrottlerIds |-> <<>>]
    /\ first_admission = 0

InitThrottler ==
    /\ \E n \in 1..MaxRequests, w \in 1..MaxWindow : NewThrottlers(RequestRate(n, w))
    /\ environ = None
    /\ threads = [s \in {IdleThread} |-> NumCallers]

NextThrottler ==
    \/ Tick
    \/ \E s \in ThreadStates : CallGetTicket(s)
    \/ \E s \in ThreadStates : CallWaitForTicket(s)
    \/ \E s \in ThreadStates : GetTicketEnter(s)
    \/ \E s \in ThreadStates : GetTicketPurge(s)
    \/ \E s \in ThreadStates : GetTicketAppend(s)
    \/ \E s \in ThreadStates : WakeUp(s)

SpecThrottler == InitThrottler /\ [][NextThrottler]_vars

\* every thread that can take a step eventually takes one, and time passes
ThreadStep ==
    \E s \in ThreadStates :
        \/ CallGetTicket(s) \/ CallWaitForTicket(s) \/ GetTicketEnter(s)
        \/ GetTicketPurge(s) \/ GetTicketAppend(s) \/ WakeUp(s)

\* Threads are scheduled, and the clock goes on: a tick waits only for a
\* critical section to end
SpecThrottlerFair == SpecThrottler /\ SF_vars(Tick) /\ WF_vars(ThreadStep)

-----------------------------------------------------------------------------
(* Construction of the free-standing Throttler *)

\* the numbers a caller may pass for a parameter whose largest value is max
ArgValues(max) == (0 - 1)..max

\* the free-standing Throttler a successful throttle_requests(...) creates
Created(rate) ==
    /\ request_rate' = [th \in ThrottlerIds |->
            IF th = "throttler" THEN rate ELSE request_rate[th]]
    /\ request_timestamps' = [request_timestamps EXCEPT !["throttler"] = <<>>]
    /\ total_calls' = [total_calls EXCEPT !["throttler"] = 0]
    /\ peak_call_rate' = [peak_call_rate EXCEPT !["throttler"] = 0]
    /\ lock' = [lock EXCEPT !["throttler"] = FALSE]

\* a thread evaluates throttle_requests(request_rate=RequestRate(m, w)),
\* throttle_requests(requests_per_second=m) or throttle_requests()
Construct(s, how, m, w) ==
    LET rate == IF how = "request_rate" THEN RequestRate(m, w) ELSE NoResult
        made == IF how = "request_rate" /\ rate = Raised("ValueError") THEN rate
                ELSE IF how = "request_rate" THEN ThrottleRequests(<<rate>>, <<>>)
                ELSE IF how = "requests_per_second" THEN ThrottleRequests(<<>>, <<m>>)
                ELSE ThrottleRequests(<<>>, <<>>)
    IN  /\ s.pc = "idle"
        /\ s.op = None
        /\ "throttler" \notin DOMAIN request_rate
        /\ IF made = Raised("ValueError")
           THEN /\ threads' = Replace(s, [s EXCEPT !.op = "throttle_requests",
                                                  !.pc = "done", !.result = made])
                /\ UNCHANGED <<lock, request_rate, request_timestamps,
                               total_calls, peak_call_rate>>
           ELSE /\ Created(made)
                /\ UNCHANGED threads
        /\ UNCHANGED <<admitted, first_admission, environ>>

InitConstruct ==
    /\ lock = [th \in ThrottlerIds |-> FALSE]
    /\ request_rate = [th \in ThrottlerIds \ {"throttler"} |->
            ThrottleRequests(<<>>, <<max_requests_per_second>>)]
    /\ request_timestamps = [th \in ThrottlerIds |-> <<>>]
    /\ total_calls = [th \in ThrottlerIds |-> 0]
    /\ peak_call_rate = [th \in ThrottlerIds |-> 0]
    /\ admitted = [th \in ThrottlerIds |-> <<>>]
    /\ first_admission = 0
    /\ environ = None
    /\ threads = [s \in {IdleThread} |-> NumCallers]

NextConstruct ==
    \/ \E s \in ThreadStates,
          how \in {"request_rate", "requests_per_second", "neither"},
          m \in ArgValues(MaxRequests), w \in ArgValues(MaxWindow) :
            Construct(s, how, m, w)
    \/ NextThrottler

SpecConstruct == InitConstruct /\ [][NextConstruct]_vars

-----------------------------------------------------------------------------
(* The scenario of 20 concurrent wait_for_ticket() calls *)

ScenarioCallers == 20

\* a thread that has called wait_for_ticket() on the free-standing Throttler
Caller ==
    [IdleThread EXCEPT !.op = "wait_for_ticket", !.pc = "enter", !.th = "throttler"]

\* the same thread when wait_for_ticket() has returned
AdmittedCaller == [Caller EXCEPT !.pc = "idle", !.ret = "True", !.calls = 1]

AdmittedCallers == CopiesIn(AdmittedCaller, threads)

InitScenario ==
    /\ NewThrottlers(RequestRate(max_requests_per_second, 1))
    /\ environ = None
    /\ threads = [s \in {Caller} |-> ScenarioCallers]

ScenarioStep ==
    \E s \in ThreadStates :
        \/ GetTicketEnter(s) \/ GetTicketPurge(s)
        \/ GetTicketAppend(s) \/ WakeUp(s)

NextScenario ==
    \/ Tick
    \/ \E s \in ThreadStates : GetTicketEnter(s)
    \/ \E s \in ThreadStates : GetTicketPurge(s)
    \/ \E s \in ThreadStates : GetTicketAppend(s)
    \/ \E s \in ThreadStates : WakeUp(s)

SpecScenario ==
    InitScenario /\ [][NextScenario]_vars /\ SF_vars(Tick) /\ WF_vars(ScenarioStep)

-----------------------------------------------------------------------------
(* with_identity *)

\* the value of identity_callable() at its n-th call: a callable may return
\* None, or a value that changes from call to call
CallableResult(identity_callable, n) ==
    IF identity_callable = "returns_none" THEN None
    ELSE IF n = 1 THEN "resolver_1" ELSE "resolver_2"

\* variant: the environment consulted before the resolver
ResolveIdentityEnvFirst(identity, identity_callable, n) ==
    IF identity # None THEN identity
    ELSE IF environ # None THEN environ
    ELSE IF identity_callable # None THEN CallableResult(identity_callable, n)
    ELSE None
\* with_identity.wrapper: the identity it ends with, None when it raises
ResolveIdentity(identity, identity_callable, n) ==
    IF identity # None THEN identity
    ELSE IF identity_callable # None THEN CallableResult(identity_callable, n)
    ELSE environ

Top(s) == s.stack[Len(s.stack)]

Pop(stack) == SubSeq(stack, 1, Len(stack) - 1)

SetTop(stack, frame) == [stack EXCEPT ![Len(stack)] = frame]

\* a new invocation of the decorated function: the retry decorator starts
\* its first attempt
Frame(identity) == [attempt |-> 1, arg |-> identity, identity |-> identity]

WithIdentity(s) ==
    LET f == Top(s)
        called == f.arg = None /\ s.identity_callable # None
        n == IF called THEN s.resolver_calls + 1 ELSE s.resolver_calls
        identity == ResolveIdentity(f.arg, s.identity_callable, n)
        r == [s EXCEPT !.resolver_calls = n, !.resolutions = @ + 1]
    IN  /\ s.pc = "identity"
        /\ threads' = Replace(s,
              IF identity = None
              THEN [r EXCEPT !.pc = "raising", !.exc = "IdentityNotSetException"]
              ELSE [r EXCEPT !.pc = "enter", !.user_agent = identity,
                             !.stack = SetTop(@, [f EXCEPT !.identity = identity])])
        /\ UNCHANGED <<lock, request_rate, request_timestamps, total_calls,
                       peak_call_rate,
                   admitted, first_admission, environ>>

-----------------------------------------------------------------------------
(* The decorated request functions *)

RequestError == "RequestError"

Statuses == {200, 301, 302, 307, 404, 429}

\* variant: 307 followed as well
IsRedirectAny3xx(status) == status \in {301, 302, 307}
\* is_redirect: response.status_code in [301, 302]
IsRedirect(status) == status \in {301, 302}

\* variant: a redirect hop that resolves its identity afresh
RedirectIdentityDropped(identity) == None
\* the identity a redirect hop is called with: identity=identity
RedirectIdentity(identity) == identity

\* variant: one attempt more than `attempts`
ShouldRetryOneMore(exc, attempt) == exc = RequestError /\ attempt <= attempts
\* stamina's retry(on=httpx.RequestError, attempts=attempts, ...): an
\* exception is retried when it is an httpx.RequestError and fewer than
\* `attempts` attempts have been made
ShouldRetry(exc, attempt) == exc = RequestError /\ attempt < attempts

\* a thread calls get_with_retry, post_with_retry or stream_with_retry
Call(s, ep, identity, identity_callable) ==
    /\ s.pc = "idle"
    /\ s.op = None
    /\ threads' = Replace(s, [s EXCEPT !.op = ep, !.th = ep, !.pc = "identity",
                                       !.identity = identity,
                                       !.identity_callable = identity_callable,
                                       !.stack = <<Frame(identity)>>])
    /\ UNCHANGED <<lock, request_rate, request_timestamps, total_calls,
                   peak_call_rate,
                   admitted, first_admission, environ>>

\* the thread's state after the transport call of its function body
\* (client.get, client.post, client.stream) answered with `status`
Answered(s, status) ==
    [s EXCEPT !.transport_calls = @ + 1,
              !.agents = @ \cup {s.user_agent},
              !.first = IF s.transport_calls = 0 THEN status ELSE @,
              !.last = status]

\* the body of get_with_retry / post_with_retry after the ticket
Transport(s) ==
    /\ s.pc = "transport"
    /\ \/ /\ s.errors < MaxErrors
          /\ threads' = Replace(s, [Answered(s, 0) EXCEPT
                !.errors = @ + 1, !.pc = "raising", !.exc = RequestError])
       \/ \E status \in Statuses :
            /\ IsRedirect(status) => s.redirects < MaxRedirects
            /\ threads' = Replace(s,
                  IF status = 429
                  THEN [Answered(s, status) EXCEPT
                            !.pc = "raising", !.exc = "TooManyRequestsError"]
                  ELSE IF IsRedirect(status)
                  THEN [Answered(s, status) EXCEPT
                            !.redirects = @ + 1, !.pc = "identity",
                            !.stack = Append(@, Frame(RedirectIdentity(Top(s).identity)))]
                  ELSE [Answered(s, status) EXCEPT
                            !.pc = "metrics", !.result = Response(status)])
    /\ UNCHANGED <<lock, request_rate, request_timestamps, total_calls,
                   peak_call_rate,
                   admitted, first_admission, environ>>

\* an invocation has returned or raised to its caller: the function body
\* that followed a redirect, the consumer's generator, or the top-level caller;
\* the caller of an async function awaits the coroutine it was returned,
\* whose body runs up to `await client.get(...)`, where the task is suspended
Returned(s) ==
    IF Len(s.stack) > 1
    THEN [s EXCEPT !.stack = Pop(@)]
    ELSE IF s.pc = "raising"
    THEN [s EXCEPT !.stack = <<>>, !.pc = "done", !.result = Raised(s.exc)]
    ELSE IF s.op \in AsyncEntryPoints
    THEN [s EXCEPT !.stack = <<>>, !.pc = "awaiting"]
    ELSE IF s.op # "stream_with_retry"
    THEN [s EXCEPT !.stack = <<>>, !.pc = "done"]
    ELSE IF s.iterating
    THEN [s EXCEPT !.stack = <<>>, !.pc = "done", !.iterating = FALSE,
                   !.yielded = Append(@, "generator")]
    ELSE [s EXCEPT !.stack = <<>>, !.pc = "consume"]

\* variant: a retry decorator applied below with_identity and throttle_requests
RetryEntryBody == "transport"
\* where an attempt of the retry decorator starts: retry is the outermost
\* decorator, so every attempt runs with_identity's and throttle_requests'
\* wrappers before the function body
RetryEntry == "identity"

\* an exception reaches the retry decorator of the innermost invocation: it
\* starts another attempt, or lets the exception through to the caller
Raising(s) ==
    LET f == Top(s)
    IN  /\ s.pc = "raising"
        /\ \/ /\ ShouldRetry(s.exc, f.attempt)
              /\ threads' = Replace(s, [s EXCEPT
                    !.pc = RetryEntry, !.exc = None,
                    !.stack = SetTop(@, [f EXCEPT !.attempt = @ + 1, !.identity = f.arg])])
           \/ /\ ShouldRetry(s.exc, f.attempt)
              /\ threads' = Replace(s, Returned([s EXCEPT !.timed_out = TRUE]))
           \/ /\ ~ShouldRetry(s.exc, f.attempt)
              /\ threads' = Replace(s, Returned(s))
        /\ UNCHANGED <<lock, request_rate, request_timestamps, total_calls,
                       peak_call_rate,
                   admitted, first_admission, environ>>

\* throttler.update_metrics(); return result
UpdateMetrics(s) ==
    /\ s.pc = "metrics"
    /\ total_calls' = [total_calls EXCEPT ![s.th] = @ + 1]
    /\ peak_call_rate' = [peak_call_rate EXCEPT
            ![s.th] = Max(@, Len(request_timestamps[s.th]))]
    /\ threads' = Replace(s, Returned(s))
    /\ UNCHANGED <<lock, request_rate, request_timestamps, admitted, first_admission, environ>>

\* the consumer takes the next element of the generator stream_with_retry
\* returned: the body of stream_with_retry runs up to its yield
Consume(s) ==
    /\ s.pc = "consume"
    /\ \/ /\ s.errors < MaxErrors
          /\ threads' = Replace(s, [Answered(s, 0) EXCEPT
                !.errors = @ + 1, !.pc = "done", !.result = Raised(RequestError)])
       \/ \E status \in Statuses :
            /\ IsRedirect(status) => s.redirects < MaxRedirects
            /\ threads' = Replace(s,
                  IF status = 429
                  THEN [Answered(s, status) EXCEPT
                            !.pc = "done", !.result = Raised("TooManyRequestsError")]
                  ELSE IF IsRedirect(status)
                  THEN [Answered(s, status) EXCEPT
                            !.redirects = @ + 1, !.pc = "identity", !.iterating = TRUE,
                            !.stack = <<Frame(RedirectIdentity(s.user_agent))>>]
                  ELSE [Answered(s, status) EXCEPT
                            !.pc = "done", !.yielded = Append(@, "Response")])
    /\ UNCHANGED <<lock, request_rate, request_timestamps, total_calls,
                   peak_call_rate,
                   admitted, first_admission, environ>>

Identities == {None, "explicit"}

Callables == {None, "returns_none", "returns_value"}

Init ==
    /\ NewThrottlers(RequestRate(max_requests_per_second, 1))
    /\ environ \in {None, "EDGAR_IDENTITY"}
    /\ threads = [s \in {IdleThread} |-> NumThreads]

Next ==
    \/ Tick
    \/ \E s \in ThreadStates, ep \in EntryPoints, identity \in Identities,
          identity_callable \in Callables : Call(s, ep, identity, identity_callable)
    \/ \E s \in ThreadStates : WithIdentity(s)
    \/ \E s \in ThreadStates : GetTicketEnter(s)
    \/ \E s \in ThreadStates : GetTicketPurge(s)
    \/ \E s \in ThreadStates : GetTicketAppend(s)
    \/ \E s \in ThreadStates : WakeUp(s)
    \/ \E s \in ThreadStates : Transport(s)
    \/ \E s \in ThreadStates : Raising(s)
    \/ \E s \in ThreadStates : UpdateMetrics(s)
    \/ \E s \in ThreadStates : Consume(s)

Spec == Init /\ [][Next]_vars

-----------------------------------------------------------------------------
(* Threads waiting for the tickets of two entry points at once *)

GlobalCallers == 9      \* threads that called get_with_retry

\* a thread that has called the entry point ep with an explicit identity and
\* has reached throttler.wait_for_ticket() in the wrapper of throttle_requests
EntryCaller(ep) ==
    [IdleThread EXCEPT !.op = ep, !.th = ep, !.pc = "enter",
                       !.identity = "explicit", !.user_agent = "explicit",
                       !.stack = <<Frame("explicit")>>, !.resolutions = 1]

\* the threads are taken up to the transport call, which is in flight for
\* as long as the scenario lasts
InitGlobal ==
    /\ NewThrottlers(RequestRate(max_requests_per_second, 1))
    /\ environ = None
    /\ threads = SetToBag({EntryCaller("post_with_retry")})
                    (+) [s \in {EntryCaller("get_with_retry")} |-> GlobalCallers]

SpecGlobal == InitGlobal /\ [][NextScenario]_vars

-----------------------------------------------------------------------------
(* The async entry points, called by the tasks of one asyncio event loop *)

NumTasks == 5           \* tasks of the event loop

\* the async function the tasks call: post_with_retry_async differs from
\* get_with_retry_async in the transport call alone
CalledAsync == {"get_with_retry_async"}

\* the answers of the transport to an awaited request
AsyncStatuses == {200, 302, 429}

\* a task the loop has scheduled and not started yet
Task == [IdleThread EXCEPT !.pc = "ready"]

IsTask(s) == s.pc = "ready" \/ s.op \in AsyncEntryPoints

\* the loop's thread runs one task at a time: it can start or resume a task
\* only when every task is suspended at an await, not started, or finished
LoopIdle ==
    \A s \in ThreadStates : IsTask(s) => s.pc \in {"ready", "awaiting", "done"}

\* the loop starts a task, which calls the async function with an explicit
\* identity
Start(s, ep) ==
    /\ s.pc = "ready"
    /\ LoopIdle
    /\ threads' = Replace(s, [s EXCEPT !.op = ep, !.th = ep, !.pc = "identity",
                                       !.identity = "explicit",
                                       !.stack = <<Frame("explicit")>>])
    /\ UNCHANGED <<lock, request_rate, request_timestamps, total_calls,
                   peak_call_rate, admitted, first_admission, environ>>

\* the awaited transport call of the coroutine's body is over and the loop
\* resumes the task: the rest of the body of get_with_retry_async /
\* post_with_retry_async.  What the body raises goes to whoever awaits the
\* coroutine: the retry decorator returned when it was handed the coroutine.
Await(s) ==
    /\ s.pc = "awaiting"
    /\ LoopIdle
    /\ \/ /\ s.errors < MaxErrors
          /\ threads' = Replace(s, [Answered(s, 0) EXCEPT
                !.errors = @ + 1, !.pc = "done", !.result = Raised(RequestError)])
       \/ \E status \in AsyncStatuses :
            /\ IsRedirect(status) => s.redirects < MaxRedirects
            /\ threads' = Replace(s,
                  IF status = 429
                  THEN [Answered(s, status) EXCEPT
                            !.pc = "done", !.result = Raised("TooManyRequestsError")]
                  ELSE IF IsRedirect(status)
                  THEN [Answered(s, status) EXCEPT
                            !.redirects = @ + 1, !.pc = "identity",
                            !.stack = <<Frame(RedirectIdentity(s.user_agent))>>]
                  ELSE [Answered(s, status) EXCEPT
                            !.pc = "done", !.result = Response(status)])
    /\ UNCHANGED <<lock, request_rate, request_timestamps, total_calls,
                   peak_call_rate, admitted, first_admission, environ>>

InitAsync ==
    /\ NewThrottlers(RequestRate(max_requests_per_second, 1))
    /\ environ = None
    /\ threads = [s \in {Task} |-> NumTasks]

NextAsync ==
    \/ Tick
    \/ \E s \in ThreadStates, ep \in CalledAsync : Start(s, ep)
    \/ \E s \in ThreadStates : WithIdentity(s)
    \/ \E s \in ThreadStates : GetTicketEnter(s)
    \/ \E s \in ThreadStates : GetTicketPurge(s)
    \/ \E s \in ThreadStates : GetTicketAppend(s)
    \/ \E s \in ThreadStates : WakeUp(s)
    \/ \E s \in ThreadStates : UpdateMetrics(s)
    \/ \E s \in ThreadStates : Await(s)

SpecAsync == InitAsync /\ [][NextAsync]_vars

-----------------------------------------------------------------------------
(* Claims *)

\* C1: for every Throttler and every reading t of the clock, the number of
\* get_ticket() calls that returned True with a timestamp in (t - W, t] is at
\* most max_requests, whatever the interleaving of the callers.
C1_WindowNeverExceeded ==
    \A th \in ThrottlerIds : \A t \in Readings(th) :
        LiveAt(th, t) <= request_rate[th].max_requests

\* C1 witness: the window is full, one direct get_ticket() was refused and
\* another was granted.
C1_Witness ==
    /\ LiveAt("throttler", now) = request_rate["throttler"].max_requests
    /\ \E s \in ThreadStates : s.op = "get_ticket" /\ s.ret = "False"
    /\ \E s \in ThreadStates : s.op = "get_ticket" /\ s.ret = "True"

InWaitForTicket(s) == s.op = "wait_for_ticket" /\ s.pc # "idle"

\* C6: a caller of wait_for_ticket() is about to return only when fewer than
\* max_requests admissions were live as it entered get_ticket(), and whenever
\* callers are inside wait_for_ticket() they eventually have all returned.
C6_WaitForTicket ==
    /\ [](\A s \in ThreadStates :
            (s.op = "wait_for_ticket" /\ s.pc = "append")
                => s.live < request_rate[s.th].max_requests)
    /\ ((\E s \in ThreadStates : InWaitForTicket(s))
            ~> (\A s \in ThreadStates : ~InWaitForTicket(s)))

\* C6 witness: a wait_for_ticket() call whose previous get_ticket() was
\* refused, so that it slept, is about to return.
C6_Witness ==
    \E s \in ThreadStates :
        s.op = "wait_for_ticket" /\ s.pc = "append" /\ s.ret = "False"

\* C7: in the scenario all callers are eventually admitted; an admission is
\* at least one window after the admission max_requests before it; from the
\* (2 * max_requests + 1)-th on it is at least two windows after the first;
\* and no window holds more than max_requests admissions.
C7_Scenario ==
    /\ [](\A s \in ThreadStates : s.pc = "append" =>
            /\ s.gapN >= WindowTicks(s.th)
            /\ AdmittedCallers >= 2 * request_rate[s.th].max_requests
                  => s.sinceFirst >= 2 * WindowTicks(s.th))
    /\ [](\A t \in Readings("throttler") :
            LiveAt("throttler", t) <= request_rate["throttler"].max_requests)
    /\ <>(AdmittedCallers = ScenarioCallers)

\* C7 witness: all callers of the scenario have been admitted.
C7_Witness ==
    /\ AdmittedCallers = ScenarioCallers
    /\ AdmittedCallers > 2 * request_rate["throttler"].max_requests

Done(s) == s.op \in EntryPoints /\ s.pc = "done"

\* C2 (as claimed): a get_with_retry call whose transport answered 429 and
\* that made fewer than `attempts` transport calls does not end by raising
\* TooManyRequestsError to its caller: the 429 is retried.
C2_TooManyRequestsRetried ==
    \A s \in ThreadStates :
        (Done(s) /\ s.op = "get_with_retry" /\ s.last = 429
            /\ s.transport_calls < attempts)
        => s.result.exc # "TooManyRequestsError"

\* C3: a get_with_retry call without redirect and without retry timeout
\* that returns a response has made one transport call more than the
\* transport raised RequestError, fewer than `attempts` times; and one that
\* raises RequestError has made exactly `attempts` transport calls, all of
\* which raised.
C3_RetryBound ==
    \A s \in ThreadStates :
        (Done(s) /\ s.op = "get_with_retry" /\ s.redirects = 0 /\ ~s.timed_out)
        => /\ s.result.kind = "response"
                => s.transport_calls = s.errors + 1 /\ s.errors < attempts
           /\ s.result.exc = RequestError
                => s.transport_calls = attempts /\ s.errors = attempts
           /\ s.errors < attempts => s.result.exc # RequestError

\* C3 witness: a call that returned after attempts - 1 transient errors.
C3_Witness ==
    \E s \in ThreadStates :
        /\ Done(s) /\ s.op = "get_with_retry" /\ s.redirects = 0 /\ ~s.timed_out
        /\ s.result.kind = "response" /\ s.errors = attempts - 1

\* C4: a get_with_retry or post_with_retry call whose transport answered d
\* times 301/302, never raised, and then answered neither 429 nor a redirect
\* returns that last response after d + 1 transport calls and d + 1 tickets,
\* all of its own Throttler, every call carrying one and the same identity.
C4_RedirectChain ==
    \A s \in ThreadStates :
        (Done(s) /\ s.op \in {"get_with_retry", "post_with_retry"}
            /\ s.transport_calls > 0 /\ s.errors = 0 /\ s.last # 429)
        => /\ s.result = Response(s.last)
           /\ ~IsRedirect(s.last)
           /\ s.transport_calls = s.redirects + 1
           /\ s.tickets = s.redirects + 1
           /\ s.th = s.op
           /\ Cardinality(s.agents) = 1

\* C4 witness: a call that followed a redirect, with an identity from the
\* resolver function.
C4_Witness ==
    \E s \in ThreadStates :
        /\ Done(s) /\ s.op = "post_with_retry" /\ s.errors = 0
        /\ s.redirects >= 1 /\ s.tickets = s.redirects + 1
        /\ s.result.kind = "response" /\ s.agents = {"resolver_1"}

AllAbsent(s) == s.identity = None /\ s.identity_callable = None /\ environ = None

\* C5: an explicit identity is the only User-Agent a call uses; without one,
\* a resolver function that returns a value provides it; and when identity,
\* resolver function and EDGAR_IDENTITY are all absent the call takes no
\* ticket, makes no transport call, resolves once and ends by raising
\* IdentityNotSetException.
C5_IdentityPrecedence ==
    \A s \in ThreadStates : s.op \in EntryPoints =>
        /\ s.identity # None => s.agents \subseteq {s.identity}
        /\ (s.identity = None /\ s.identity_callable = "returns_value")
              => s.agents \subseteq {"resolver_1", "resolver_2"}
        /\ AllAbsent(s) =>
              /\ s.tickets = 0 /\ s.transport_calls = 0 /\ s.resolutions <= 1
              /\ s.pc \in {"identity", "raising", "done"}
              /\ s.pc = "done" => s.result = Raised("IdentityNotSetException")
        /\ (s.pc \in {"enter", "transport"} /\ s.identity # None)
              => s.user_agent = s.identity
        /\ (s.pc \in {"enter", "transport"} /\ s.identity = None
                /\ s.identity_callable = "returns_value")
              => s.user_agent \in {"resolver_1", "resolver_2"}

\* C5 witness: a call with nothing to resolve the identity from has ended.
C5_Witness ==
    \E s \in ThreadStates : Done(s) /\ AllAbsent(s) /\ s.resolutions = 1

\* C8 (as claimed): everything the generator returned by stream_with_retry
\* yields is a Response.
C8_YieldsOnlyResponses ==
    \A s \in ThreadStates :
        \A i \in 1..Len(s.yielded) : s.yielded[i] = "Response"

\* C9: a get_with_retry or post_with_retry call whose first transport call
\* was answered with a status other than 429, 301 and 302 returns that
\* response after this one transport call and one ticket.
C9_OtherStatusReturned ==
    \A s \in ThreadStates :
        (s.op \in {"get_with_retry", "post_with_retry"}
            /\ s.first \notin {0, 429, 301, 302})
        => /\ s.transport_calls = 1
           /\ s.tickets = 1
           /\ s.pc \in {"metrics", "done"}
           /\ s.result = Response(s.first)

\* C9 witness: a call answered 307 has returned.
C9_Witness ==
    \E s \in ThreadStates :
        Done(s) /\ s.op = "post_with_retry" /\ s.first = 307 /\ s.result = Response(307)

\* C10 (as claimed): resolution raises IdentityNotSetException exactly when
\* the explicit identity is absent, the resolver function is absent or
\* returns None, and EDGAR_IDENTITY is not set.
C10_FailsExactlyWhenAllAbsent ==
    \A s \in ThreadStates :
        Done(s) =>
            (s.result.exc = "IdentityNotSetException"
                <=> /\ s.identity = None
                    /\ s.identity_callable \in {None, "returns_none"}
                    /\ environ = None)

\* C11 (as claimed): while a task of the event loop waits for a rate-limit
\* ticket in wait_for_ticket(), the loop can run the other tasks: every task
\* that is ready to start, or whose awaited transport call is over, can take
\* its next step.
C11_WaitYieldsToLoop ==
    \A s \in ThreadStates : (IsTask(s) /\ s.pc = "sleep") =>
        \A t \in ThreadStates : t.pc \in {"ready", "awaiting"} =>
            ENABLED (Await(t) \/ \E ep \in CalledAsync : Start(t, ep))

\* C12: RequestRate(max_requests, time_window) raises ValueError exactly when
\* max_requests <= 0 or time_window <= 0, throttle_requests() with neither
\* argument raises ValueError, and every Throttler that exists, and so every
\* Throttler a thread runs get_ticket() of, has a positive limit and window.
C12_ValidatedAtConstruction ==
    /\ \A m \in ArgValues(MaxRequests), w \in ArgValues(MaxWindow) :
            /\ (m <= 0 \/ w <= 0) <=> RequestRate(m, w) = Raised("ValueError")
            /\ m <= 0 <=> ThrottleRequests(<<>>, <<m>>) = Raised("ValueError")
    /\ ThrottleRequests(<<>>, <<>>) = Raised("ValueError")
    /\ \A th \in DOMAIN request_rate :
            request_rate[th].max_requests > 0 /\ request_rate[th].time_window > 0
    /\ \A s \in ThreadStates :
            s.pc \in {"enter", "purge", "append", "sleep"}
                => s.th \in DOMAIN request_rate

\* C12 witness: one throttle_requests(...) raised ValueError, another created
\* the Throttler, and a get_ticket() of that Throttler has returned.
C12_Witness ==
    /\ \E s \in ThreadStates :
            s.op = "throttle_requests" /\ s.result = Raised("ValueError")
    /\ "throttler" \in DOMAIN request_rate
    /\ \E s \in ThreadStates : s.op = "get_ticket" /\ s.ret = "True"

\* C13 (as claimed): over all the redirect hops of one get_with_retry call,
\* at most `attempts` transport calls end in httpx.RequestError.
C13_SingleRetryBudget ==
    \A s \in ThreadStates : s.op = "get_with_retry" => s.errors <= attempts

\* number of admissions of throttler th with timestamp in [t - window, t]
LiveClosedAt(th, t) ==
    Cardinality({i \in 1..Len(admitted[th]) :
                    admitted[th][i] >= t - WindowTicks(th) /\ admitted[th][i] <= t})

\* C14 (as claimed): get_ticket() keeps and counts an admission whose
\* timestamp equals current_time - time_window: a call is about to be
\* granted only when fewer than max_requests admissions have a timestamp in
\* [current_time - time_window, current_time].
C14_PurgeStrictlyOlder ==
    \A s \in ThreadStates :
        s.pc = "append"
            => LiveClosedAt(s.th, s.current_time) < request_rate[s.th].max_requests

\* C15 (as claimed): the timestamps in request_timestamps that are not yet
\* below the window are in strictly ascending order: in order, and no two
\* of them equal.
C15_AscendingUnique ==
    \A th \in ThrottlerIds :
        \A i, j \in 1..Len(request_timestamps[th]) :
            (i < j /\ request_timestamps[th][i] > TimestampFloor(th))
                => request_timestamps[th][i] < request_timestamps[th][j]

\* number of admissions of all the entry points' Throttlers together with a
\* timestamp in the second that ends at reading t
GlobalLiveAt(t) ==
    Cardinality(UNION {{<<th, i>> : i \in {k \in 1..Len(admitted[th]) :
                            /\ admitted[th][k] > t - TicksPerSecond
                            /\ admitted[th][k] <= t}} :
                       th \in EntryPoints \cup AsyncEntryPoints})

\* C16 (as claimed): all entry points together are granted at most
\* max_requests_per_second tickets within any trailing second.
C16_GlobalLimit ==
    \A t \in (now - 1)..now : GlobalLiveAt(t) <= max_requests_per_second

\* C17 (as claimed): an awaited get_with_retry_async call whose transport
\* calls raised httpx.RequestError fewer than `attempts` times does not end
\* by raising httpx.RequestError to the task that awaits it.
C17_AsyncRetries ==
    \A s \in ThreadStates :
        (s.op = "get_with_retry_async" /\ s.pc = "done" /\ s.errors < attempts)
            => s.result.exc # RequestError

\* the tickets throttler th has granted to the calls of the threads in S
RECURSIVE TicketsGranted(_, _)
TicketsGranted(S, th) ==
    IF S = {} THEN 0
    ELSE LET s == CHOOSE x \in S : TRUE
         IN  (IF s.th = th THEN s.tickets * CopiesIn(s, threads) ELSE 0)
                + TicketsGranted(S \ {s}, th)

\* C18 (as claimed): when no call of get_with_retry or post_with_retry is in
\* progress, total_calls of the entry point's Throttler equals the number of
\* tickets it has granted, whether the calls returned or raised.
C18_CounterCountsTickets ==
    (\A s \in ThreadStates : s.pc \in {"idle", "done"})
        => \A th \in {"get_with_retry", "post_with_retry"} :
                total_calls[th] = TicketsGranted(ThreadStates, th)

\* q2 is q without some of its first entries
IsSuffix(q2, q) ==
    Len(q2) <= Len(q) /\ q2 = SubSeq(q, Len(q) - Len(q2) + 1, Len(q))

\* what a step of a get_ticket() call may do to request_timestamps of th
GetTicketFrame(th) ==
    LET q == request_timestamps[th]
        q2 == request_timestamps'[th]
    IN  IF lock[th] /\ ~lock'[th] /\ admitted'[th] = admitted[th]
        THEN q2 = q
        ELSE \/ q2 = q
             \/ /\ lock[th] /\ lock'[th]
                /\ IsSuffix(q2, q)
                /\ \A i \in 1..(Len(q) - Len(q2)) : q[i] <= now - WindowTicks(th)
             \/ /\ lock[th] /\ ~lock'[th]
                /\ q2 = Append(q, now)

\* C19: a step that ends a get_ticket() call with False leaves
\* request_timestamps as it was; any other step of a get_ticket() call leaves
\* it as it was, removes a prefix of entries that are expired, or appends
\* the current time; and request_timestamps never holds more than
\* max_requests entries.  (A tick of the clock changes the representation
\* of the readings, not the deque.)
C19_GetTicketFrame ==
    /\ [][Tick \/ \A th \in ThrottlerIds : GetTicketFrame(th)]_vars
    /\ [](\A th \in ThrottlerIds :
            Len(request_timestamps[th]) <= request_rate[th].max_requests)

\* C19 witness: one get_ticket() has returned False, and another call has
\* purged an expired timestamp and is about to append.
C19_Witness ==
    /\ \E s \in ThreadStates :
            s.op = "get_ticket" /\ s.pc = "idle" /\ s.ret = "False"
    /\ \E s \in ThreadStates :
            /\ s.pc = "append"
            /\ request_timestamps[s.th] = <<>>
            /\ admitted[s.th] # <<>>

\* C20: at every point of a get_with_retry or post_with_retry call, the
\* tickets granted to it are those of the entry point's own Throttler, and
\* are as many as its transport calls, plus the one ticket just granted
\* when its next transport call is about to start: no transport call
\* without a ticket, and no ticket used twice.
C20_TicketPerTransportCall ==
    \A s \in ThreadStates : s.op \in {"get_with_retry", "post_with_retry"} =>
        /\ s.th = s.op
        /\ s.transport_calls <= s.tickets
        /\ s.tickets = s.transport_calls + (IF s.pc = "transport" THEN 1 ELSE 0)

\* C20 witness: a call that retried after a transient error and followed a
\* redirect has ended.
C20_Witness ==
    \E s \in ThreadStates :
        /\ Done(s) /\ s.op = "get_with_retry"
        /\ s.errors >= 1 /\ s.redirects >= 1
        /\ s.transport_calls >= 3 /\ s.tickets = s.transport_calls

====
